---- MODULE Spec2Model ----
(***************************************************************************)
(* Model of the /analyze command of the crypto analysis bot:               *)
(*   - handlers/analyze.js      execute (the orchestration of one command) *)
(*   - services/cryptoService   fetchCryptoData, fetchKlineData,           *)
(*                              getTickerData and the 60 s cache;          *)
(*                              calculateTechnicalIndicators,              *)
(*                              generateSignals, findKeyLevels and         *)
(*                              calculateRiskMetrics                       *)
(*   - services/polymarketService getSentimentData, fetchRelatedMarkets,   *)
(*                              getMarketPrice, calculateSentiment,        *)
(*                              analyzeMarketSentiment and the 300 s cache *)
(*   - utils/progressMessage    initialize, update, finalize               *)
(* Several commands run concurrently on the one event loop; every await on *)
(* network I/O is a point where the other commands and the clock move.     *)
(*                                                                         *)
(* Spec and SpecRace run the commands; SpecAnalysis runs steps 2, 5, 6 and *)
(* 7 of execute on one snapshot, SpecLevels runs findKeyLevels on daily    *)
(* series, SpecMarket runs analyzeMarketSentiment on one enriched market,  *)
(* SpecSentiment runs calculateSentiment on a list of enriched markets.    *)
(*                                                                         *)
(* Units: times are milliseconds, market prices are tenths (price 0.7 is   *)
(* written 7), weights are thousandths, stop loss and take profit are      *)
(* tenths of a percent, a confidence is an exact fraction [num, den].      *)
(***************************************************************************)
EXTENDS Integers, Sequences, FiniteSets, TLC

VARIABLES
  now,             \* Date.now()
  cryptoCache,     \* CryptoService.cache: key -> [data, timestamp]
  sentimentCache,  \* PolymarketService.cache: key -> [data, timestamp]
  pc,              \* where each call stands
  symbol,          \* the symbol of the call, upper-cased
  timeframe,       \* the timeframe option of the call, or NULL
  kline,           \* per timeframe, the state of the call's candle request
  cryptoData,      \* what fetchCryptoData gave the call: a snapshot or the error
  spc,             \* where the call's getSentimentData stands
  listing,         \* what the call's market listing request answered
  marketList,      \* the markets that passed the filter
  priceReq,        \* per filtered market, the state of its price request
  sentimentData,   \* what getSentimentData returned to the call
  reply,           \* the reply the user sees
  apc,             \* the analysis step execute stands at (steps 2, 5, 6, 7)
  snapshot,        \* the cryptoData the analysis steps work on
  technicalAnalysis, \* what calculateTechnicalIndicators returned
  signals,         \* what generateSignals returned
  keyLevels,       \* what findKeyLevels returned
  riskMetrics,     \* what calculateRiskMetrics returned
  market,          \* the market given to analyzeMarketSentiment
  marketSentiment, \* what analyzeMarketSentiment returned
  marketsWithPrices, \* the markets given to calculateSentiment
  sentimentResult  \* what calculateSentiment returned

handlerVars == <<now, cryptoCache, sentimentCache,
                 pc, symbol, timeframe, kline, cryptoData,
                 spc, listing, marketList, priceReq, sentimentData, reply>>

analysisVars == <<apc, snapshot, technicalAnalysis, signals, keyLevels, riskMetrics>>

marketVars == <<market, marketSentiment, marketsWithPrices, sentimentResult>>

vars == <<handlerVars, analysisVars, marketVars>>

cryptoVars == <<pc, symbol, timeframe, kline, cryptoData>>
sentimentVars == <<spc, listing, marketList, priceReq, sentimentData>>

(* ---------------------------- bounds ----------------------------------- *)
NumCalls == 2
MaxTicks == 2

Calls == 1..NumCalls

(* ---------------------- program constants ------------------------------ *)
cacheTimeout == 60000
sentimentCacheTimeout == 300000
maxSymbolLength == 10

TickMs == cacheTimeout \div 2

(* null for an optional string (the timeframe option), for an optional     *)
(* object and for an optional number.                                      *)
NULL == "null"
None == [none |-> TRUE]
Num(n) == [num |-> n]

AllTimeframes == <<"15m", "1h", "4h", "1d", "1w", "1M">>

Range(s) == {s[i] : i \in DOMAIN s}

(* ---------------------------- strings ---------------------------------- *)
(* A symbol is a sequence of one-character strings.                        *)
UpperOf ==
  [ch \in {"b", "t", "c", "B", "T", "C", "-"} |->
     CASE ch = "b" -> "B"
       [] ch = "t" -> "T"
       [] ch = "c" -> "C"
       [] OTHER -> ch]

toUpperCase(s) == [i \in DOMAIN s |-> UpperOf[s[i]]]

AllowedChars ==
  {"A", "B", "C", "D", "E", "F", "G", "H", "I", "J", "K", "L", "M",
   "N", "O", "P", "Q", "R", "S", "T", "U", "V", "W", "X", "Y", "Z",
   "0", "1", "2", "3", "4", "5", "6", "7", "8", "9"}

(* config.security: allowedSymbols /^[A-Z0-9]+$/ and maxSymbolLength.      *)
allowedSymbols(s) == Len(s) >= 1 /\ \A i \in DOMAIN s : s[i] \in AllowedChars

ValidSymbol(s) == allowedSymbols(s) /\ Len(s) <= maxSymbolLength

(* ---------------------------- inputs ----------------------------------- *)
SymbolInputs == {<<"b", "t", "c">>, <<"B", "T", "-">>}
TimeframeInputs == {NULL, "1h"}
CommandTimeframes == {NULL}

(* What the exchange may answer to a candle request: a transport error, an *)
(* empty array, or candles.                                                *)
Candle(h, l, cl, v) == [high |-> h, low |-> l, close |-> cl, volume |-> v]
KlinePayloads ==
  {[ok |-> FALSE],
   [ok |-> TRUE, data |-> << >>],
   [ok |-> TRUE, data |-> <<Candle(6, 4, 5, 1)>>]}

(* What the exchange may answer to a 24h ticker request.                   *)
TickerPayloads ==
  {[ok |-> FALSE],
   [ok |-> TRUE, lastPrice |-> 100, priceChange |-> 1, priceChangePercent |-> 1, volume |-> 7]}

(* ------------------------- CryptoService ------------------------------- *)
cacheKey(sym, tf) == <<sym, IF tf = NULL THEN "all" ELSE tf>>

FetchList(tf) == IF tf = NULL THEN AllTimeframes ELSE <<tf>>

(* Faulty variant: an entry exactly timeout old still counts as fresh.     *)
CacheFreshInclusive(cache, key, timeout) ==
  /\ key \in DOMAIN cache
  /\ now - cache[key].timestamp <= timeout

(* cache.has(key) && Date.now() - cached.timestamp < timeout               *)
CacheFresh(cache, key, timeout) ==
  /\ key \in DOMAIN cache
  /\ now - cache[key].timestamp < timeout

(* Faulty variant: an existing entry is kept, the first write wins.        *)
CachePutIfAbsent(cache, key, data) ==
  IF key \in DOMAIN cache THEN cache
  ELSE [k \in DOMAIN cache \cup {key} |->
          IF k = key THEN [data |-> data, timestamp |-> now] ELSE cache[k]]

(* cache.set(key, {data, timestamp: Date.now()})                           *)
CachePut(cache, key, data) ==
  [k \in DOMAIN cache \cup {key} |->
     IF k = key THEN [data |-> data, timestamp |-> now] ELSE cache[k]]

Last(s) == s[Len(s)]

Tail96(s) == IF Len(s) <= 96 THEN s ELSE SubSeq(s, Len(s) - 95, Len(s))

MaxOf(S) == CHOOSE x \in S : \A y \in S : y <= x
MinOf(S) == CHOOSE x \in S : \A y \in S : x <= y

RECURSIVE SumVolume(_)
SumVolume(s) == IF s = << >> THEN 0 ELSE Head(s).volume + SumVolume(Tail(s))

(* The state of one candle request of a call.                              *)
NotRequested == [state |-> "none"]
Pending == [state |-> "pending"]
Failed == [state |-> "fail"]

(* Faulty variant: a failed request yields an empty series instead of      *)
(* throwing.                                                               *)
fetchKlineDataSwallows(interval, payload) ==
  IF ~payload.ok \/ Len(payload.data) = 0
  THEN [state |-> "ok", interval |-> interval, candles |-> << >>,
        currentPrice |-> None, high24h |-> None, low24h |-> None, volume24h |-> 0]
  ELSE [state |-> "ok",
        interval |-> interval,
        candles |-> payload.data,
        currentPrice |-> Last(payload.data).close,
        high24h |-> MaxOf({cd.high : cd \in Range(Tail96(payload.data))}),
        low24h |-> MinOf({cd.low : cd \in Range(Tail96(payload.data))}),
        volume24h |-> SumVolume(Tail96(payload.data))]

(* fetchKlineData: Failed when the request rejects or when the answer has  *)
(* no candle (candles[candles.length - 1].close throws), else the series.  *)
fetchKlineData(interval, payload) ==
  IF ~payload.ok THEN Failed
  ELSE IF Len(payload.data) = 0 THEN Failed
  ELSE [state |-> "ok",
        interval |-> interval,
        candles |-> payload.data,
        currentPrice |-> Last(payload.data).close,
        high24h |-> MaxOf({cd.high : cd \in Range(Tail96(payload.data))}),
        low24h |-> MinOf({cd.low : cd \in Range(Tail96(payload.data))}),
        volume24h |-> SumVolume(Tail96(payload.data))]

(* A thrown exception.                                                     *)
Thrown == [threw |-> TRUE]

(* Faulty variant: the failure of the ticker request is rethrown.          *)
getTickerDataThrows(payload) == IF ~payload.ok THEN Thrown ELSE payload

(* getTickerData: the answer, or null when the request fails.              *)
getTickerData(payload) == IF ~payload.ok THEN None ELSE payload

(* The snapshot fetchCryptoData assembles from the joined candle results   *)
(* and the ticker.                                                         *)
BuildSnapshot(sym, tf, results, ticker) ==
  [symbol |-> sym,
   currentPrice |-> IF ticker = None THEN None ELSE Num(ticker.lastPrice),
   priceChange24h |-> IF ticker = None THEN None ELSE Num(ticker.priceChange),
   priceChangePercent24h |-> IF ticker = None THEN None ELSE Num(ticker.priceChangePercent),
   volume24h |-> IF ticker = None THEN None ELSE Num(ticker.volume),
   timeframes |-> [t \in Range(FetchList(tf)) |-> results[t]]]

(* Faulty variant: the join waits for every fetch and never rejects        *)
(* (Promise.allSettled).                                                   *)
PromiseAllSettled(k, tf) ==
  IF \A t \in Range(FetchList(tf)) : k[t].state \in {"ok", "fail"} THEN "resolved"
  ELSE "pending"

(* Promise.all over the candle fetches of the list: rejected as soon as    *)
(* one fetch has failed, resolved when all have succeeded.                 *)
PromiseAll(k, tf) ==
  IF \E t \in Range(FetchList(tf)) : k[t] = Failed THEN "rejected"
  ELSE IF \A t \in Range(FetchList(tf)) : k[t].state = "ok" THEN "resolved"
  ELSE "pending"

IsSnapshot(d) == "timeframes" \in DOMAIN d

(* --------------------------- replies ----------------------------------- *)
NoReply == [kind |-> "none"]
ProgressReply == [kind |-> "progress"]
ErrorReply(sym, cause) == [kind |-> "error", symbol |-> sym, cause |-> cause]
EmbedReply(sym) == [kind |-> "embed", symbol |-> sym]
GenericErrorReply == [kind |-> "generic"]

(* ProgressMessage.finalize: editReply(content); a failing edit is caught  *)
(* and logged, the previous reply stays.                                   *)
finalize(old, content, editOk) == IF editOk THEN content ELSE old

(* Faulty variant: the error message does not name the symbol.             *)
ErrorContentNoSymbol(sym, message) == ErrorReply(<< >>, message)

(* The content execute finalizes from its catch block.                     *)
ErrorContent(sym, message) == ErrorReply(sym, message)

(* ------------------------ PolymarketService ---------------------------- *)
(* Text is a set of words; includes(keyword) is membership of the keyword  *)
(* after lower-casing the text.                                            *)
LowerWord(w) ==
  CASE w = "Bitcoin" -> "bitcoin"
    [] w = "Ethereum" -> "ethereum"
    [] w = "BTC" -> "btc"
    [] w = "BT-" -> "bt-"
    [] w = "ATH" -> "ath"
    [] OTHER -> w

toLowerCase(words) == {LowerWord(w) : w \in words}

includes(words, term) == term \in words

(* The symbol written as one word.                                         *)
SymbolWord(sym) ==
  CASE sym = <<"B", "T", "C">> -> "BTC"
    [] sym = <<"B", "T", "-">> -> "BT-"
    [] OTHER -> "?"

mapSymbolToSearchTerm(sym) ==
  CASE sym = <<"B", "T", "C">> -> "Bitcoin"
    [] sym = <<"E", "T", "H">> -> "Ethereum"
    [] OTHER -> SymbolWord(sym)

Market(i, q, d, t) == [id |-> i, question |-> q, description |-> d, tags |-> t]

(* The markets the listing endpoint may return, in this order.             *)
Catalogue ==
  <<Market(1, {"Will", "Bitcoin", "reach"}, {}, {}),
    Market(2, {"crypto", "crash"}, {"Bitcoin", "price"}, {}),
    Market(3, {"Ethereum", "rise"}, {}, {"ethereum"})>>

RECURSIVE SelectSeq2(_, _)
SelectSeq2(s, S) ==
  IF s = << >> THEN << >>
  ELSE IF Head(s).id \in S THEN <<Head(s)>> \o SelectSeq2(Tail(s), S)
  ELSE SelectSeq2(Tail(s), S)

ListingPayloads ==
  {[ok |-> FALSE]} \cup
  {[ok |-> TRUE, data |-> SelectSeq2(Catalogue, S)] : S \in SUBSET {1, 2, 3}}

(* What the per-market endpoint may answer.                                *)
PricePayloads ==
  {[ok |-> FALSE],
   [ok |-> TRUE, price |-> 7, volume24h |-> 2, liquidity |-> 3]}

(* The filter of fetchRelatedMarkets: question, description or a tag       *)
(* contains the search term, case-insensitively.                           *)
MatchesTerm(m, term) ==
  \/ includes(toLowerCase(m.question), LowerWord(term))
  \/ includes(toLowerCase(m.description), LowerWord(term))
  \/ \E tag \in m.tags : includes({LowerWord(tag)}, LowerWord(term))

(* Faulty variant: the listing is not filtered.                            *)
FilterMarketsKeepAll(s, term) == s

RECURSIVE FilterMarkets(_, _)
FilterMarkets(s, term) ==
  IF s = << >> THEN << >>
  ELSE IF MatchesTerm(Head(s), term) THEN <<Head(s)>> \o FilterMarkets(Tail(s), term)
  ELSE FilterMarkets(Tail(s), term)

(* getMarketPrice: the three fields (0 when missing), zeros on failure.    *)
getMarketPrice(payload) ==
  IF payload.ok
  THEN [price |-> payload.price, volume24h |-> payload.volume24h,
        liquidity |-> payload.liquidity]
  ELSE [price |-> 0, volume24h |-> 0, liquidity |-> 0]

(* {...market, price, volume, liquidity}                                   *)
Enrich(m, pd) ==
  [id |-> m.id, question |-> m.question, description |-> m.description,
   tags |-> m.tags, price |-> pd.price, volume |-> pd.volume24h,
   liquidity |-> pd.liquidity]

bullishKeywords ==
  <<"reach", "exceed", "above", "higher", "rise", "increase", "gain", "bull",
    "moon", "pump", "surge", "rally", "breakout", " ATH", "all-time high">>

bearishKeywords ==
  <<"fall", "below", "lower", "drop", "decrease", "decline", "bear",
    "crash", "dump", "plunge", "collapse", "breakdown">>

(* keywords.forEach(k => if (text includes k) direction = dir)             *)
RECURSIVE ScanKeywords(_, _, _, _)
ScanKeywords(kws, text, dir, direction) ==
  IF kws = << >> THEN direction
  ELSE ScanKeywords(Tail(kws), text, dir,
                    IF includes(text, Head(kws)) THEN dir ELSE direction)

analyzeMarketSentiment(m) ==
  LET text == toLowerCase(m.question) \cup toLowerCase(m.description)
      d1 == ScanKeywords(bullishKeywords, text, "BULLISH", "NEUTRAL")
      direction == ScanKeywords(bearishKeywords, text, "BEARISH", d1)
      scoreModifier ==
        IF direction = "BULLISH" THEN (m.price * 30) \div 10
        ELSE IF direction = "BEARISH" THEN ((10 - m.price) * 30) \div 10
        ELSE 0
  IN [direction |-> direction, score |-> 50 + scoreModifier]

(* 1000 * ln(x), rounded.                                                  *)
LnMilli(x) ==
  CASE x = 1 -> 0
    [] x = 2 -> 693
    [] x = 3 -> 1099
    [] OTHER -> 0

(* Math.log(market.volume + 1) + 1, in thousandths.                        *)
Weight(m) == LnMilli(m.volume + 1) + 1000

RECURSIVE SumSeq(_)
SumSeq(s) == IF s = << >> THEN 0 ELSE Head(s) + SumSeq(Tail(s))

(* Math.round of the non-negative fraction n / d.                          *)
RoundDiv(n, d) == (2 * n + d) \div (2 * d)

(* markets.sort((a, b) => b.volume - a.volume): stable, descending.        *)
RECURSIVE InsertByVolume(_, _)
InsertByVolume(m, s) ==
  IF s = << >> THEN <<m>>
  ELSE IF Head(s).volume >= m.volume THEN <<Head(s)>> \o InsertByVolume(m, Tail(s))
  ELSE <<m>> \o s

RECURSIVE SortByVolume(_)
SortByVolume(s) ==
  IF s = << >> THEN << >>
  ELSE LET rest == SortByVolume(SubSeq(s, 1, Len(s) - 1))
       IN InsertByVolume(Last(s), rest)

Slice3(s) == IF Len(s) <= 3 THEN s ELSE SubSeq(s, 1, 3)

formatVolume(v) ==
  IF v >= 1000000 THEN [unit |-> "M", tenths |-> (v * 10) \div 1000000]
  ELSE IF v >= 1000 THEN [unit |-> "K", tenths |-> (v * 10) \div 1000]
  ELSE [unit |-> "", tenths |-> v * 10]

TopMarket(m) ==
  [question |-> m.question, pricePercent |-> m.price * 10, volume |-> formatVolume(m.volume)]

(* Faulty variant: no market counts as the most bearish reading.           *)
NoMarketsResultZero ==
  [score |-> 0, confidence |-> 0, sources |-> 0, markets |-> << >>,
   trend |-> "BEARISH", analysis |-> "No prediction markets found for this asset"]

(* calculateSentiment for no market.                                       *)
NoMarketsResult ==
  [score |-> 50, confidence |-> 0, sources |-> 0, markets |-> << >>,
   trend |-> "NEUTRAL", analysis |-> "No prediction markets found for this asset"]

(* The value getSentimentData returns from its catch block.                *)
NeutralOnError ==
  [score |-> 50, confidence |-> 0, sources |-> 0, markets |-> << >>,
   trend |-> "NEUTRAL"]

Narrative(num, den) ==
  IF num > 60 * den THEN "optimistic"
  ELSE IF num < 40 * den THEN "pessimistic" ELSE "neutral"

(* Faulty variant: the trend is taken from the rounded score.              *)
TrendOfRounded(num, den) ==
  IF RoundDiv(num, den) > 60 THEN "BULLISH"
  ELSE IF RoundDiv(num, den) < 40 THEN "BEARISH" ELSE "NEUTRAL"

(* The trend of the weighted score num / den, before rounding.             *)
TrendOf(num, den) ==
  IF num > 60 * den THEN "BULLISH"
  ELSE IF num < 40 * den THEN "BEARISH" ELSE "NEUTRAL"

calculateSentiment(markets) ==
  IF Len(markets) = 0 THEN NoMarketsResult
  ELSE
    LET ScoreTimesWeight(m) == analyzeMarketSentiment(m).score * Weight(m)
        IsBull(m) == IF analyzeMarketSentiment(m).direction = "BULLISH" THEN 1 ELSE 0
        IsBear(m) == IF analyzeMarketSentiment(m).direction = "BEARISH" THEN 1 ELSE 0
        totalScore == SumSeq([i \in DOMAIN markets |-> ScoreTimesWeight(markets[i])])
        totalVolume == SumSeq([i \in DOMAIN markets |-> Weight(markets[i])])
        confidence ==
          IF totalVolume * 10 >= 100 * 1000 * Len(markets) THEN 100
          ELSE RoundDiv(totalVolume * 10, 1000 * Len(markets))
        trend == TrendOf(totalScore, totalVolume)
        top == Slice3(SortByVolume(markets))
    IN [score |-> RoundDiv(totalScore, totalVolume),
        confidence |-> confidence,
        sources |-> Len(markets),
        bullishMarkets |-> SumSeq([i \in DOMAIN markets |-> IsBull(markets[i])]),
        bearishMarkets |-> SumSeq([i \in DOMAIN markets |-> IsBear(markets[i])]),
        trend |-> trend,
        markets |-> [i \in DOMAIN top |-> TopMarket(top[i])],
        analysis |-> Narrative(totalScore, totalVolume)]

(* -------------------- CryptoService: the analysis ---------------------- *)
(* Units: a confidence is a fraction [num, den] of a percent, stop-loss    *)
(* and take-profit percentages are tenths (2.5 is written 25).             *)

(* JavaScript truthiness of null/undefined, of a number and of an object.  *)
Truthy(x) == x # None /\ (("num" \in DOMAIN x) => x.num # 0)

(* x || null                                                               *)
OrNull(x) == IF Truthy(x) THEN x ELSE None

(* a > b and a < b on numbers; false when a side is undefined or null.     *)
Gt(a, b) == a # None /\ b # None /\ a.num > b.num
Lt(a, b) == a # None /\ b # None /\ a.num < b.num

Frac(n, d) == [num |-> n, den |-> d]

(* tfData.candles.map(c => c.close)                                        *)
Closes(tfData) == [i \in DOMAIN tfData.candles |-> tfData.candles[i].close]

(* The least number of closes for which the indicators are computed.       *)
MinCloses == 14

(* Faulty variant: exactly 14 closes are not enough.                       *)
HasEnoughClosesStrict(closes) == Len(closes) > MinCloses

(* closes.length >= 14                                                     *)
HasEnoughCloses(closes) == Len(closes) >= MinCloses

(* The last element of what the technicalindicators library computes for   *)
(* one series (RSI, MACD, SMA, EMA, BollingerBands .calculate), None where *)
(* the library returns an empty array.  The library is not part of the     *)
(* repository: any of these readings may come back.                        *)
RsiReadings == {None, Num(0), Num(25), Num(30), Num(50), Num(70), Num(75)}

MacdReadings ==
  {None} \cup
  {[MACD |-> Num(l), signal |-> Num(s), histogram |-> h] :
     l \in {1, 2}, s \in {1, 2}, h \in {None, Num(-1), Num(0), Num(1)}}

(* The last SMA20 and the last EMA20.                                      *)
MaReadings ==
  {[sma20 |-> None, ema20 |-> None], [sma20 |-> None, ema20 |-> Num(5)],
   [sma20 |-> Num(4), ema20 |-> Num(5)], [sma20 |-> Num(5), ema20 |-> Num(4)],
   [sma20 |-> Num(5), ema20 |-> Num(5)]}

BbReadings ==
  {None} \cup
  {[upper |-> Num(95 + w), middle |-> Num(100), lower |-> Num(95)] : w \in {4, 5, 6, 10, 11}}

LibraryReadings ==
  {[rsi |-> r, macd |-> m, sma20 |-> ma.sma20, ema20 |-> ma.ema20, bollingerBands |-> bb] :
     r \in RsiReadings, m \in MacdReadings, ma \in MaReadings, bb \in BbReadings}

(* What the library gives for a series too short for every indicator.      *)
NoReading ==
  [rsi |-> None, macd |-> None, sma20 |-> None, ema20 |-> None, bollingerBands |-> None]

SampleReading ==
  [rsi |-> Num(50), macd |-> None, sma20 |-> Num(5), ema20 |-> Num(5),
   bollingerBands |-> None]

(* A reading every indicator of which would vote or set a risk level.      *)
StrongReading ==
  [rsi |-> Num(25),
   macd |-> [MACD |-> Num(2), signal |-> Num(1), histogram |-> Num(1)],
   sma20 |-> Num(4), ema20 |-> Num(5),
   bollingerBands |-> [upper |-> Num(106), middle |-> Num(100), lower |-> Num(95)]]

(* analysis.timeframes[timeframe] = {...}                                  *)
IndicatorReading(tfData, lib) ==
  [rsi |-> OrNull(lib.rsi),
   macd |-> OrNull(lib.macd),
   sma20 |-> OrNull(lib.sma20),
   ema20 |-> OrNull(lib.ema20),
   bollingerBands |-> OrNull(lib.bollingerBands),
   currentPrice |-> tfData.currentPrice,
   volume |-> tfData.volume24h]

(* Faulty variant: without a daily reading the headline fields fall back   *)
(* on the reading of a timeframe that is there.                            *)
HeadlineOfAny(tfs) ==
  LET t == IF "1d" \in DOMAIN tfs \/ DOMAIN tfs = {} THEN "1d"
           ELSE CHOOSE u \in DOMAIN tfs : TRUE
  IN IF t \in DOMAIN tfs
     THEN [rsi |-> tfs[t].rsi,
           macd |-> tfs[t].macd,
           sma20 |-> tfs[t].sma20,
           ema20 |-> tfs[t].ema20,
           bollingerBands |-> tfs[t].bollingerBands,
           timeframes |-> tfs]
     ELSE [rsi |-> None, macd |-> None, sma20 |-> None, ema20 |-> None,
           bollingerBands |-> None, timeframes |-> tfs]

(* The headline fields: the daily reading, if there is one.                *)
Headline(tfs) ==
  IF "1d" \in DOMAIN tfs
  THEN [rsi |-> tfs["1d"].rsi,
        macd |-> tfs["1d"].macd,
        sma20 |-> tfs["1d"].sma20,
        ema20 |-> tfs["1d"].ema20,
        bollingerBands |-> tfs["1d"].bollingerBands,
        timeframes |-> tfs]
  ELSE [rsi |-> None, macd |-> None, sma20 |-> None, ema20 |-> None,
        bollingerBands |-> None, timeframes |-> tfs]

(* calculateTechnicalIndicators(cryptoData); lib[t] is what the library    *)
(* computes for the closes of timeframe t.                                 *)
calculateTechnicalIndicators(data, lib) ==
  Headline([t \in {u \in DOMAIN data.timeframes :
                     HasEnoughCloses(Closes(data.timeframes[u]))} |->
              IndicatorReading(data.timeframes[t], lib[t])])

(* Faulty variant: an RSI of exactly 30 already counts as oversold.        *)
RsiVoteInclusive(rsi) ==
  IF ~Truthy(rsi) THEN "NEUTRAL"
  ELSE IF rsi.num <= 30 THEN "BULLISH"
  ELSE IF rsi.num > 70 THEN "BEARISH" ELSE "NEUTRAL"

(* generateSignals: the RSI signal.                                        *)
RsiVote(rsi) ==
  IF ~Truthy(rsi) THEN "NEUTRAL"
  ELSE IF rsi.num < 30 THEN "BULLISH"
  ELSE IF rsi.num > 70 THEN "BEARISH" ELSE "NEUTRAL"

(* Faulty variant: a positive histogram alone makes the vote bullish.      *)
MacdVoteHistogramOnly(macd) ==
  IF ~Truthy(macd) THEN "NEUTRAL"
  ELSE IF Gt(macd.histogram, Num(0)) THEN "BULLISH"
  ELSE IF Lt(macd.histogram, Num(0)) THEN "BEARISH" ELSE "NEUTRAL"

(* generateSignals: the MACD signal.                                       *)
MacdVote(macd) ==
  IF ~Truthy(macd) THEN "NEUTRAL"
  ELSE IF Gt(macd.histogram, Num(0)) /\ Gt(macd.MACD, macd.signal) THEN "BULLISH"
  ELSE IF Lt(macd.histogram, Num(0)) THEN "BEARISH" ELSE "NEUTRAL"

(* generateSignals: the moving average signal.                             *)
MaVote(ema20, sma20) ==
  IF ~(Truthy(ema20) /\ Truthy(sma20)) THEN "NEUTRAL"
  ELSE IF Gt(ema20, sma20) THEN "BULLISH" ELSE "BEARISH"

(* signals.signals; the volume signal is never computed.                   *)
Votes(ta) ==
  [rsi |-> RsiVote(ta.rsi), macd |-> MacdVote(ta.macd),
   ma |-> MaVote(ta.ema20, ta.sma20), volume |-> "NEUTRAL"]

CountVotes(v, dir) == Cardinality({k \in {"rsi", "macd", "ma"} : v[k] = dir})

bullishCount(ta) == CountVotes(Votes(ta), "BULLISH")
bearishCount(ta) == CountVotes(Votes(ta), "BEARISH")

(* Faulty variant: the confidence is taken over the votes cast.            *)
ConfidenceOfCast(winning, other) == Frac(winning * 100, winning + other)

(* (count / 3) * 100                                                       *)
ConfidenceOf(winning, other) == Frac(winning * 100, 3)

generateSignals(ta) ==
  LET bull == bullishCount(ta)
      bear == bearishCount(ta)
  IN [overallSignal |-> IF bull > bear THEN "BUY" ELSE IF bear > bull THEN "SELL" ELSE "HOLD",
      overallTrend |-> IF bull > bear THEN "BULLISH"
                       ELSE IF bear > bull THEN "BEARISH" ELSE "NEUTRAL",
      signals |-> Votes(ta),
      confidence |-> IF bull > bear THEN ConfidenceOf(bull, bear)
                     ELSE IF bear > bull THEN ConfidenceOf(bear, bull) ELSE Frac(0, 1)]

(* Faulty variant: a width of exactly 10 percent is already HIGH.          *)
VolatilityOfInclusive(bb) ==
  LET num == (bb.upper.num - bb.lower.num) * 100
      den == bb.middle.num
  IN IF num >= 10 * den THEN "HIGH" ELSE IF num > 5 * den THEN "MEDIUM" ELSE "LOW"

(* width = ((bb.upper - bb.lower) / bb.middle) * 100 against 10 and 5, for *)
(* a positive middle band.                                                 *)
VolatilityOf(bb) ==
  LET num == (bb.upper.num - bb.lower.num) * 100
      den == bb.middle.num
  IN IF num > 10 * den THEN "HIGH" ELSE IF num > 5 * den THEN "MEDIUM" ELSE "LOW"

(* suggestedStopLoss and suggestedTakeProfit by RSI.                       *)
StopLossTakeProfit(rsi) ==
  IF rsi.num < 30 THEN [stopLoss |-> Num(30), takeProfit |-> Num(80)]
  ELSE IF rsi.num > 70 THEN [stopLoss |-> Num(20), takeProfit |-> Num(50)]
  ELSE [stopLoss |-> Num(25), takeProfit |-> Num(60)]

(* Faulty variant: without the inputs the risk level is unknown too.       *)
RiskDefaultsUnknown ==
  [volatility |-> "UNKNOWN", riskLevel |-> "UNKNOWN",
   suggestedStopLoss |-> None, suggestedTakeProfit |-> None]

(* The metrics calculateRiskMetrics starts from.                           *)
RiskDefaults ==
  [volatility |-> "UNKNOWN", riskLevel |-> "MEDIUM",
   suggestedStopLoss |-> None, suggestedTakeProfit |-> None]

calculateRiskMetrics(ta) ==
  IF Truthy(ta.bollingerBands) /\ Truthy(ta.rsi)
  THEN [volatility |-> VolatilityOf(ta.bollingerBands),
        riskLevel |-> VolatilityOf(ta.bollingerBands),
        suggestedStopLoss |-> StopLossTakeProfit(ta.rsi).stopLoss,
        suggestedTakeProfit |-> StopLossTakeProfit(ta.rsi).takeProfit]
  ELSE RiskDefaults

(* The number of trailing daily candles findKeyLevels looks at.            *)
RecentWindow == 50

(* candles.slice(-50)                                                      *)
RecentCandles(candles) ==
  IF Len(candles) <= RecentWindow THEN candles
  ELSE SubSeq(candles, Len(candles) - RecentWindow + 1, Len(candles))

(* Faulty variant: a high that only equals a neighbour still counts.       *)
IsSwingHighWeak(c, i) ==
  /\ c[i].high >= c[i - 1].high
  /\ c[i].high >= c[i - 2].high
  /\ c[i].high >= c[i + 1].high
  /\ c[i].high >= c[i + 2].high

(* The four comparisons of a swing high at position i (counted from 1).    *)
IsSwingHigh(c, i) ==
  /\ c[i].high > c[i - 1].high
  /\ c[i].high > c[i - 2].high
  /\ c[i].high > c[i + 1].high
  /\ c[i].high > c[i + 2].high

(* The four comparisons of a swing low at position i.                      *)
IsSwingLow(c, i) ==
  /\ c[i].low < c[i - 1].low
  /\ c[i].low < c[i - 2].low
  /\ c[i].low < c[i + 1].low
  /\ c[i].low < c[i + 2].low

(* if (!list.includes(x)) list.push(x)                                     *)
PushNew(list, x) == IF x \in Range(list) THEN list ELSE Append(list, x)

(* for (i = 2; i < recentCandles.length - 2; i++): positions 3 .. n-2      *)
(* counted from 1.                                                         *)
RECURSIVE ScanSwings(_, _, _)
ScanSwings(c, i, levels) ==
  IF i > Len(c) - 2 THEN levels
  ELSE ScanSwings(c, i + 1,
         [resistance |-> IF IsSwingHigh(c, i) THEN PushNew(levels.resistance, c[i].high)
                         ELSE levels.resistance,
          support |-> IF IsSwingLow(c, i) THEN PushNew(levels.support, c[i].low)
                      ELSE levels.support])

RECURSIVE InsertAscending(_, _)
InsertAscending(x, s) ==
  IF s = << >> THEN <<x>>
  ELSE IF Head(s) <= x THEN <<Head(s)>> \o InsertAscending(x, Tail(s))
  ELSE <<x>> \o s

(* sort((a, b) => a - b)                                                   *)
RECURSIVE SortAscending(_)
SortAscending(s) ==
  IF s = << >> THEN << >>
  ELSE InsertAscending(Last(s), SortAscending(SubSeq(s, 1, Len(s) - 1)))

Reverse(s) == [i \in DOMAIN s |-> s[Len(s) + 1 - i]]

(* Faulty variant: the resistance levels stay in the order found.          *)
SortDescendingNot(s) == s

(* sort((a, b) => b - a)                                                   *)
SortDescending(s) == Reverse(SortAscending(s))

NoLevels == [support |-> << >>, resistance |-> << >>]

findKeyLevels(data) ==
  IF "1d" \notin DOMAIN data.timeframes THEN NoLevels
  ELSE LET recentCandles == RecentCandles(data.timeframes["1d"].candles)
           levels == ScanSwings(recentCandles, 3, NoLevels)
       IN [support |-> Slice3(SortAscending(levels.support)),
           resistance |-> Slice3(SortDescending(levels.resistance))]

(* ----------------------- inputs of the analysis ------------------------ *)
MaxCloses == 15
MaxWindow == 5
NumPeaks == 4

(* A snapshot as fetchCryptoData returns it for the timeframe option tf,   *)
(* series[t] being the candles the exchange sent for timeframe t.          *)
SnapshotOf(tf, series) ==
  BuildSnapshot(<<"B", "T", "C">>, tf,
                [t \in Range(FetchList(tf)) |->
                   fetchKlineData(t, [ok |-> TRUE, data |-> series[t]])],
                None)

(* n equal candles.                                                        *)
FlatSeries(n) == [i \in 1..n |-> Candle(6, 4, 5, 1)]

SeriesLengths == {MinCloses - 1, MinCloses, MaxCloses}

(* Snapshots around the 14 closes: the daily series and the other series   *)
(* have their own lengths.                                                 *)
AnalysisSnapshots ==
  {SnapshotOf(tf, [t \in Range(AllTimeframes) |->
                     FlatSeries(IF t = "1d" THEN nd ELSE no)]) :
     tf \in {NULL, "1d", "1h"}, nd \in SeriesLengths, no \in {MinCloses - 1, MinCloses}}

(* A daily candle of level v: high v + 1, low v.                           *)
DayCandle(v) == Candle(v + 1, v, v, 1)

DaysOf(values) == [i \in DOMAIN values |-> DayCandle(values[i])]

SeqsUpTo(S, n) == UNION {[1..k -> S] : k \in 1..n}

(* base, base, then per peak: the peak and two candles at the base.        *)
RECURSIVE Zigzag(_, _)
Zigzag(base, peaks) ==
  IF peaks = << >> THEN <<base, base>>
  ELSE Zigzag(base, SubSeq(peaks, 1, Len(peaks) - 1)) \o <<Last(peaks), base, base>>

(* The daily series: every series of up to MaxWindow candles over three    *)
(* levels; NumPeaks spikes above, or dips below, a flat base; one spike    *)
(* followed by a flat run that fills the window or exceeds it by one;      *)
(* strictly rising series.                                                 *)
DailySeries ==
  {DaysOf(s) : s \in SeqsUpTo({1, 2, 3}, MaxWindow)}
    \cup {DaysOf(Zigzag(0, p)) : p \in [1..NumPeaks -> 1..4]}
    \cup {DaysOf(Zigzag(5, p)) : p \in [1..NumPeaks -> 1..4]}
    \cup {DaysOf(<<0, 0, 5, 0, 0>> \o [i \in 1..k |-> 0]) :
            k \in {RecentWindow - 5, RecentWindow - 4}}
    \cup {DaysOf([i \in 1..k |-> i]) : k \in MaxWindow..(2 * NumPeaks)}

LevelSnapshots ==
  {SnapshotOf("1d", [t \in Range(AllTimeframes) |-> s]) : s \in DailySeries}
    \cup {SnapshotOf("1h", [t \in Range(AllTimeframes) |-> DaysOf(<<1, 1, 3, 1, 1>>)])}

(* One spike in a flat series long enough for the indicators, fetched for  *)
(* the daily timeframe alone or for the hourly timeframe alone.            *)
SpikeSeries == DaysOf(<<1, 1, 3, 1, 1>> \o [i \in 1..(MinCloses - 5) |-> 1])

SpikeSnapshots ==
  {SnapshotOf(tf, [t \in Range(AllTimeframes) |-> SpikeSeries]) : tf \in {"1d", "1h"}}

(* ------------------------- the state machine --------------------------- *)
NoKlines == [t \in Range(AllTimeframes) |-> NotRequested]

HandlerInit ==
  /\ now = 0
  /\ cryptoCache = << >>
  /\ sentimentCache = << >>
  /\ pc = [c \in Calls |-> "idle"]
  /\ symbol = [c \in Calls |-> << >>]
  /\ timeframe = [c \in Calls |-> NULL]
  /\ kline = [c \in Calls |-> NoKlines]
  /\ cryptoData = [c \in Calls |-> None]
  /\ spc = [c \in Calls |-> "none"]
  /\ marketList = [c \in Calls |-> << >>]
  /\ listing = [c \in Calls |-> "none"]
  /\ priceReq = [c \in Calls |-> << >>]
  /\ sentimentData = [c \in Calls |-> None]
  /\ reply = [c \in Calls |-> NoReply]

(* No analysis step is running.                                            *)
AnalysisIdle ==
  /\ apc = "idle"
  /\ snapshot = None
  /\ technicalAnalysis = None
  /\ signals = None
  /\ keyLevels = None
  /\ riskMetrics = None

MarketIdle ==
  /\ market = None
  /\ marketSentiment = None
  /\ marketsWithPrices = None
  /\ sentimentResult = None

Init == HandlerInit /\ AnalysisIdle /\ MarketIdle

(* The clock moves.                                                        *)
Tick ==
  /\ now < MaxTicks * TickMs
  /\ now' = now + TickMs
  /\ UNCHANGED <<cryptoCache, sentimentCache, cryptoVars, sentimentVars, reply>>
  /\ UNCHANGED <<analysisVars, marketVars>>

(* interactionCreate -> execute: read the options, upper-case the symbol,  *)
(* start ProgressMessage.initialize (deferReply).                          *)
Execute(c, symIn, tf) ==
  /\ pc[c] \in {"idle", "done"}
  /\ pc' = [pc EXCEPT ![c] = "init"]
  /\ symbol' = [symbol EXCEPT ![c] = toUpperCase(symIn)]
  /\ timeframe' = [timeframe EXCEPT ![c] = tf]
  /\ kline' = [kline EXCEPT ![c] = NoKlines]
  /\ cryptoData' = [cryptoData EXCEPT ![c] = None]
  /\ spc' = [spc EXCEPT ![c] = "none"]
  /\ marketList' = [marketList EXCEPT ![c] = << >>]
  /\ listing' = [listing EXCEPT ![c] = "none"]
  /\ priceReq' = [priceReq EXCEPT ![c] = << >>]
  /\ sentimentData' = [sentimentData EXCEPT ![c] = None]
  /\ reply' = [reply EXCEPT ![c] = NoReply]
  /\ UNCHANGED <<now, cryptoCache, sentimentCache>>
  /\ UNCHANGED <<analysisVars, marketVars>>

(* ProgressMessage.initialize completes: the progress embed is shown, or   *)
(* the deferral fails, execute rejects and index.js answers generically.   *)
Initialize(c, ok) ==
  /\ pc[c] = "init"
  /\ pc' = [pc EXCEPT ![c] = IF ok THEN "step1" ELSE "done"]
  /\ reply' = [reply EXCEPT ![c] = IF ok THEN ProgressReply ELSE GenericErrorReply]
  /\ UNCHANGED <<now, cryptoCache, sentimentCache, symbol, timeframe, kline,
                 cryptoData, sentimentVars>>
  /\ UNCHANGED <<analysisVars, marketVars>>

(* What fetchCryptoData throws from its catch block.                       *)
FetchThrown == [threw |-> TRUE, message |-> "Failed to fetch crypto data"]

(* Step 1: fetchCryptoData is called: cache read, and on a miss the candle *)
(* requests of every timeframe of the list are issued at once.             *)
FetchCryptoData(c) ==
  /\ pc[c] = "step1"
  /\ LET key == cacheKey(symbol[c], timeframe[c]) IN
       IF CacheFresh(cryptoCache, key, cacheTimeout)
       THEN /\ cryptoData' = [cryptoData EXCEPT ![c] = cryptoCache[key].data]
            /\ pc' = [pc EXCEPT ![c] = "fetched"]
            /\ UNCHANGED kline
       ELSE /\ kline' = [kline EXCEPT ![c] =
                  [t \in Range(AllTimeframes) |->
                     IF t \in Range(FetchList(timeframe[c])) THEN Pending ELSE NotRequested]]
            /\ pc' = [pc EXCEPT ![c] = "klines"]
            /\ UNCHANGED cryptoData
  /\ UNCHANGED <<now, cryptoCache, sentimentCache, symbol, timeframe,
                 sentimentVars, reply>>
  /\ UNCHANGED <<analysisVars, marketVars>>

(* One candle request is answered.  A failure rejects Promise.all at once  *)
(* and fetchCryptoData throws; the results are dropped.  The last success  *)
(* resolves the join and the ticker request is issued.                     *)
KlineResponse(c, tf, payload) ==
  /\ pc[c] = "klines"
  /\ kline[c][tf] = Pending
  /\ LET k2 == [kline[c] EXCEPT ![tf] = fetchKlineData(tf, payload)]
         joined == PromiseAll(k2, timeframe[c]) IN
       IF joined = "rejected"
       THEN /\ pc' = [pc EXCEPT ![c] = "fetched"]
            /\ cryptoData' = [cryptoData EXCEPT ![c] = FetchThrown]
            /\ kline' = [kline EXCEPT ![c] = NoKlines]
       ELSE /\ pc' = [pc EXCEPT ![c] = IF joined = "resolved" THEN "ticker" ELSE "klines"]
            /\ kline' = [kline EXCEPT ![c] = k2]
            /\ UNCHANGED cryptoData
  /\ UNCHANGED <<now, cryptoCache, sentimentCache, symbol, timeframe,
                 sentimentVars, reply>>
  /\ UNCHANGED <<analysisVars, marketVars>>

(* The ticker request is answered: the snapshot is assembled, written to   *)
(* the cache and returned.  An exception out of getTickerData would reach  *)
(* the catch block of fetchCryptoData.                                     *)
TickerResponse(c, payload) ==
  /\ pc[c] = "ticker"
  /\ LET ticker == getTickerData(payload)
         data == BuildSnapshot(symbol[c], timeframe[c], kline[c], ticker) IN
       IF ticker = Thrown
       THEN /\ cryptoData' = [cryptoData EXCEPT ![c] = FetchThrown]
            /\ UNCHANGED cryptoCache
       ELSE /\ cryptoCache' = CachePut(cryptoCache, cacheKey(symbol[c], timeframe[c]), data)
            /\ cryptoData' = [cryptoData EXCEPT ![c] = data]
  /\ kline' = [kline EXCEPT ![c] = NoKlines]
  /\ pc' = [pc EXCEPT ![c] = "fetched"]
  /\ UNCHANGED <<now, sentimentCache, symbol, timeframe, sentimentVars, reply>>
  /\ UNCHANGED <<analysisVars, marketVars>>

(* execute after fetchCryptoData: a thrown error is caught and finalized   *)
(* as the error reply; otherwise the command goes on with steps 2 and 3.   *)
AfterFetch(c, editOk) ==
  /\ pc[c] = "fetched"
  /\ IF cryptoData[c] = FetchThrown
     THEN /\ pc' = [pc EXCEPT ![c] = "done"]
          /\ reply' = [reply EXCEPT ![c] =
                finalize(reply[c], ErrorContent(symbol[c], FetchThrown.message), editOk)]
     ELSE /\ pc' = [pc EXCEPT ![c] = "step3"]
          /\ editOk
          /\ UNCHANGED reply
  /\ UNCHANGED <<now, cryptoCache, sentimentCache, symbol, timeframe, kline,
                 cryptoData, sentimentVars>>
  /\ UNCHANGED <<analysisVars, marketVars>>

(* A caller other than the command calls fetchCryptoData(sym, tf).         *)
CallFetchCryptoData(c, sym, tf) ==
  /\ pc[c] \in {"idle", "fetched"}
  /\ pc' = [pc EXCEPT ![c] = "step1"]
  /\ symbol' = [symbol EXCEPT ![c] = sym]
  /\ timeframe' = [timeframe EXCEPT ![c] = tf]
  /\ kline' = [kline EXCEPT ![c] = NoKlines]
  /\ cryptoData' = [cryptoData EXCEPT ![c] = None]
  /\ UNCHANGED <<now, cryptoCache, sentimentCache, sentimentVars, reply>>
  /\ UNCHANGED <<analysisVars, marketVars>>

(* Faulty variant: getSentimentData is started together with               *)
(* fetchCryptoData instead of after it.                                    *)
SentimentMayStartEarly(c) == pc[c] \in {"klines", "step3"}

(* execute calls getSentimentData after fetchCryptoData has returned and   *)
(* the indicators are computed (steps 2 and 3).                            *)
SentimentMayStart(c) == pc[c] = "step3"

(* The command resumes at step 4 when getSentimentData returns.            *)
Resume(c) == IF pc[c] \in {"step3", "sentiment"} THEN "step4" ELSE pc[c]

(* The end of getSentimentData's try block: the sentiment of the markets   *)
(* is calculated, cached and returned.                                     *)
SentimentReturn(c, markets) ==
  LET data == calculateSentiment(markets) IN
    /\ sentimentData' = [sentimentData EXCEPT ![c] = data]
    /\ sentimentCache' = CachePut(sentimentCache, symbol[c], data)
    /\ spc' = [spc EXCEPT ![c] = "returned"]
    /\ pc' = [pc EXCEPT ![c] = Resume(c)]

(* getSentimentData is called: cache read, and on a miss the market        *)
(* listing is requested.                                                   *)
GetSentimentData(c) ==
  /\ SentimentMayStart(c)
  /\ spc[c] = "none"
  /\ IF CacheFresh(sentimentCache, symbol[c], sentimentCacheTimeout)
     THEN /\ sentimentData' = [sentimentData EXCEPT ![c] = sentimentCache[symbol[c]].data]
          /\ spc' = [spc EXCEPT ![c] = "returned"]
          /\ pc' = [pc EXCEPT ![c] = Resume(c)]
     ELSE /\ spc' = [spc EXCEPT ![c] = "markets"]
          /\ pc' = [pc EXCEPT ![c] = IF pc[c] = "step3" THEN "sentiment" ELSE pc[c]]
          /\ UNCHANGED sentimentData
  /\ UNCHANGED <<now, cryptoCache, sentimentCache, symbol, timeframe, kline,
                 cryptoData, listing, marketList, priceReq, reply>>
  /\ UNCHANGED <<analysisVars, marketVars>>

(* What fetchRelatedMarkets returns when the listing request fails.        *)
MarketsOnError == << >>

(* The listing request is answered: the markets are filtered and one price *)
(* request per surviving market is issued; with no market left the result  *)
(* is computed at once.                                                    *)
MarketsResponse(c, payload) ==
  /\ spc[c] = "markets"
  /\ LET markets == IF payload.ok
                    THEN FilterMarkets(payload.data, mapSymbolToSearchTerm(symbol[c]))
                    ELSE MarketsOnError IN
       /\ listing' = [listing EXCEPT ![c] = IF payload.ok THEN "ok" ELSE "failed"]
       /\ marketList' = [marketList EXCEPT ![c] = markets]
       /\ priceReq' = [priceReq EXCEPT ![c] = [i \in DOMAIN markets |-> Pending]]
       /\ IF Len(markets) = 0
          THEN SentimentReturn(c, markets)
          ELSE /\ spc' = [spc EXCEPT ![c] = "prices"]
               /\ UNCHANGED <<sentimentData, sentimentCache, pc>>
  /\ UNCHANGED <<now, cryptoCache, symbol, timeframe, kline, cryptoData, reply>>
  /\ UNCHANGED <<analysisVars, marketVars>>

(* Faulty variant: a market whose price request failed is dropped.         *)
RECURSIVE DropFailed(_, _, _)
DropFailed(ms, reqs, i) ==
  IF i > Len(ms) THEN << >>
  ELSE IF reqs[i].failed THEN DropFailed(ms, reqs, i + 1)
  ELSE <<Enrich(ms[i], reqs[i].priceData)>> \o DropFailed(ms, reqs, i + 1)

MarketsWithPricesDropFailed(ms, reqs) == DropFailed(ms, reqs, 1)

(* The markets with their price data, once every price request is back.    *)
MarketsWithPrices(ms, reqs) == [i \in DOMAIN ms |-> Enrich(ms[i], reqs[i].priceData)]

(* One per-market price request is answered (failed: the request failed    *)
(* and getMarketPrice answered with zeros); the last answer resolves the   *)
(* join and the sentiment is calculated.                                   *)
PriceResponse(c, i, payload) ==
  /\ spc[c] = "prices"
  /\ i \in DOMAIN priceReq[c]
  /\ priceReq[c][i] = Pending
  /\ LET r2 == [priceReq[c] EXCEPT ![i] =
                  [state |-> "done", failed |-> ~payload.ok,
                   priceData |-> getMarketPrice(payload)]] IN
       /\ priceReq' = [priceReq EXCEPT ![c] = r2]
       /\ IF \A j \in DOMAIN r2 : r2[j].state = "done"
          THEN SentimentReturn(c, MarketsWithPrices(marketList[c], r2))
          ELSE UNCHANGED <<sentimentData, sentimentCache, spc, pc>>
  /\ UNCHANGED <<now, cryptoCache, symbol, timeframe, kline, cryptoData,
                 listing, marketList, reply>>
  /\ UNCHANGED <<analysisVars, marketVars>>

(* analyze.js has no binding named client: evaluating                      *)
(* client.user.displayAvatarURL() for the footer throws a ReferenceError.  *)
clientIsBound == FALSE

(* Steps 4 to 8 and the reply: the embed is built and finalized, or the    *)
(* exception of the embed construction is caught and the error finalized.  *)
Complete(c, editOk) ==
  /\ pc[c] = "step4"
  /\ pc' = [pc EXCEPT ![c] = "done"]
  /\ reply' = [reply EXCEPT ![c] =
        finalize(reply[c],
                 IF clientIsBound THEN EmbedReply(symbol[c])
                 ELSE ErrorContent(symbol[c], "client is not defined"),
                 editOk)]
  /\ UNCHANGED <<now, cryptoCache, sentimentCache, symbol, timeframe, kline,
                 cryptoData, sentimentVars>>
  /\ UNCHANGED <<analysisVars, marketVars>>

(* Spec: a stream of /analyze commands, one at a time: they all run on the *)
(* first call slot.                                                        *)
Command == CHOOSE c \in Calls : \A d \in Calls : c <= d

Next ==
  \/ Tick
  \/ \E s \in SymbolInputs, tf \in CommandTimeframes : Execute(Command, s, tf)
  \/ \E ok \in BOOLEAN : Initialize(Command, ok)
  \/ FetchCryptoData(Command)
  \/ \E tf \in Range(AllTimeframes), p \in KlinePayloads : KlineResponse(Command, tf, p)
  \/ \E p \in TickerPayloads : TickerResponse(Command, p)
  \/ \E ok \in BOOLEAN : AfterFetch(Command, ok)
  \/ GetSentimentData(Command)
  \/ \E p \in ListingPayloads : MarketsResponse(Command, p)
  \/ \E i \in 1..Len(Catalogue), p \in PricePayloads : PriceResponse(Command, i, p)
  \/ \E ok \in BOOLEAN : Complete(Command, ok)

Spec == Init /\ [][Next]_vars

(* SpecRace: concurrent callers of fetchCryptoData on the shared cache.    *)
RaceSymbols == {<<"B", "T", "C">>}

NextRace ==
  \/ Tick
  \/ \E c \in Calls, s \in RaceSymbols, tf \in TimeframeInputs : CallFetchCryptoData(c, s, tf)
  \/ \E c \in Calls : FetchCryptoData(c)
  \/ \E c \in Calls, tf \in Range(AllTimeframes), p \in KlinePayloads : KlineResponse(c, tf, p)
  \/ \E c \in Calls, p \in TickerPayloads : TickerResponse(c, p)

SpecRace == Init /\ [][NextRace]_vars

(* ------------------- the analysis steps of execute --------------------- *)
(* SpecAnalysis: steps 2, 5, 6 and 7 of execute on a snapshot.             *)
InitAnalysis ==
  /\ HandlerInit
  /\ MarketIdle
  /\ apc = "step2"
  /\ snapshot \in AnalysisSnapshots \cup SpikeSnapshots
  /\ technicalAnalysis = None
  /\ signals = None
  /\ keyLevels = None
  /\ riskMetrics = None

(* Step 2: calculateTechnicalIndicators(cryptoData); the library answers   *)
(* libDaily for the daily closes and libOther for the other series.        *)
CalculateTechnicalIndicators(libDaily, libOther) ==
  /\ apc = "step2"
  /\ technicalAnalysis' =
       calculateTechnicalIndicators(snapshot,
         [t \in Range(AllTimeframes) |-> IF t = "1d" THEN libDaily ELSE libOther])
  /\ apc' = "step5"
  /\ UNCHANGED <<handlerVars, marketVars, snapshot, signals, keyLevels, riskMetrics>>

(* Step 5: generateSignals(technicalAnalysis).                             *)
GenerateSignals ==
  /\ apc = "step5"
  /\ signals' = generateSignals(technicalAnalysis)
  /\ apc' = "step6"
  /\ UNCHANGED <<handlerVars, marketVars, snapshot, technicalAnalysis, keyLevels, riskMetrics>>

(* Step 6: findKeyLevels(cryptoData).                                      *)
FindKeyLevels ==
  /\ apc = "step6"
  /\ keyLevels' = findKeyLevels(snapshot)
  /\ apc' = "step7"
  /\ UNCHANGED <<handlerVars, marketVars, snapshot, technicalAnalysis, signals, riskMetrics>>

(* Step 7: calculateRiskMetrics(technicalAnalysis).                        *)
CalculateRiskMetrics ==
  /\ apc = "step7"
  /\ riskMetrics' = calculateRiskMetrics(technicalAnalysis)
  /\ apc' = "step8"
  /\ UNCHANGED <<handlerVars, marketVars, snapshot, technicalAnalysis, signals, keyLevels>>

NextAnalysis ==
  \/ /\ apc = "step2"
     /\ \E libDaily \in LibraryReadings,
           libOther \in {NoReading, SampleReading, StrongReading} :
          CalculateTechnicalIndicators(libDaily, libOther)
  \/ GenerateSignals
  \/ FindKeyLevels
  \/ CalculateRiskMetrics

SpecAnalysis == InitAnalysis /\ [][NextAnalysis]_vars

(* SpecLevels: findKeyLevels on the daily series.                          *)
InitLevels ==
  /\ HandlerInit
  /\ MarketIdle
  /\ apc = "step6"
  /\ snapshot \in LevelSnapshots
  /\ technicalAnalysis = None
  /\ signals = None
  /\ keyLevels = None
  /\ riskMetrics = None

NextLevels == FindKeyLevels

SpecLevels == InitLevels /\ [][NextLevels]_vars

(* SpecMarket: analyzeMarketSentiment on one enriched market.              *)
QuestionWords == {"Will", "reach", "moon", "crash", "fall", "ATH"}
DescriptionInputs == {{}, {"rise"}, {"drop"}}
MarketPrices == {0, 3, 7, 10}

MarketInputs ==
  {Enrich(Market(1, {"Bitcoin"} \cup q, d, {}),
          getMarketPrice([ok |-> TRUE, price |-> p, volume24h |-> 2, liquidity |-> 3])) :
     q \in SUBSET QuestionWords, d \in DescriptionInputs, p \in MarketPrices}

InitMarket ==
  /\ HandlerInit
  /\ AnalysisIdle
  /\ market \in MarketInputs
  /\ marketSentiment = None
  /\ marketsWithPrices = None
  /\ sentimentResult = None

AnalyzeMarketSentiment ==
  /\ marketSentiment = None
  /\ marketSentiment' = analyzeMarketSentiment(market)
  /\ UNCHANGED <<handlerVars, analysisVars, market, marketsWithPrices, sentimentResult>>

NextMarket == AnalyzeMarketSentiment

SpecMarket == InitMarket /\ [][NextMarket]_vars

(* SpecSentiment: calculateSentiment on the markets fetchRelatedMarkets    *)
(* returned.                                                               *)
MaxMarkets == 2

SentimentQuestions == {{"Bitcoin"}, {"Bitcoin", "reach"}, {"Bitcoin", "crash"}}
SentimentPrices == {0, 2, 4, 7, 10}
SentimentVolumes == {0, 2}

PricedMarkets ==
  {Enrich(Market(1, q, {}, {}),
          getMarketPrice([ok |-> TRUE, price |-> p, volume24h |-> v, liquidity |-> 3])) :
     q \in SentimentQuestions, p \in SentimentPrices, v \in SentimentVolumes}

SentimentInputs == UNION {[1..k -> PricedMarkets] : k \in 0..MaxMarkets}

InitSentiment ==
  /\ HandlerInit
  /\ AnalysisIdle
  /\ market = None
  /\ marketSentiment = None
  /\ marketsWithPrices \in SentimentInputs
  /\ sentimentResult = None

CalculateSentiment ==
  /\ sentimentResult = None
  /\ sentimentResult' = calculateSentiment(marketsWithPrices)
  /\ UNCHANGED <<handlerVars, analysisVars, market, marketSentiment, marketsWithPrices>>

NextSentiment == CalculateSentiment

SpecSentiment == InitSentiment /\ [][NextSentiment]_vars

(* ============================ properties =============================== *)
IsSentiment(d) == "score" \in DOMAIN d

KeyOf(c) == cacheKey(symbol[c], timeframe[c])

SeriesComplete(d, tf) ==
  /\ DOMAIN d.timeframes = Range(FetchList(tf))
  /\ \A t \in Range(FetchList(tf)) : d.timeframes[t].state = "ok"

MarketInFlight(c) == pc[c] \in {"klines", "ticker"}
SentimentInFlight(c) == spc[c] \in {"markets", "prices"}

(* C1: fetchCryptoData without a timeframe joins the six candle fetches    *)
(* all-or-nothing: a failed fetch never stays beside a running join, and   *)
(* every snapshot a call holds, and every snapshot cached under the "all"  *)
(* key, has all six timeframes, each successfully fetched; a call that     *)
(* failed holds the error, not a partial snapshot.                         *)
C1_AllOrNothing ==
  /\ \A c \in Calls :
       /\ \A t \in Range(AllTimeframes) : kline[c][t] # Failed
       /\ (timeframe[c] = NULL /\ IsSnapshot(cryptoData[c]))
            => SeriesComplete(cryptoData[c], NULL)
  /\ \A key \in DOMAIN cryptoCache :
       key[2] = "all" => SeriesComplete(cryptoCache[key].data, NULL)

(* A call for all timeframes has failed with the error and left no cache   *)
(* entry.                                                                  *)
C1_Witness ==
  \E c \in Calls :
    /\ pc[c] = "fetched"
    /\ timeframe[c] = NULL
    /\ cryptoData[c] = FetchThrown
    /\ KeyOf(c) \notin DOMAIN cryptoCache

(* C2: a fetchCryptoData call whose key has a cache entry written less     *)
(* than 60 s ago returns the cached snapshot and issues no candle request; *)
(* a call 60 s or more after the write issues the candle requests anew.    *)
C2_CacheTtl ==
  [][\A c \in Calls :
       (pc[c] = "step1" /\ pc'[c] # "step1" /\ KeyOf(c) \in DOMAIN cryptoCache) =>
         IF now - cryptoCache[KeyOf(c)].timestamp < 60000
         THEN /\ pc'[c] = "fetched"
              /\ cryptoData'[c] = cryptoCache[KeyOf(c)].data
              /\ kline'[c] = NoKlines
         ELSE /\ pc'[c] = "klines"
              /\ \A t \in Range(FetchList(timeframe[c])) : kline'[c][t] = Pending]_vars

(* A call is fetching anew although its key has an entry, 60 s old or      *)
(* more.                                                                   *)
C2_Witness ==
  \E c \in Calls :
    /\ pc[c] = "klines"
    /\ KeyOf(c) \in DOMAIN cryptoCache
    /\ now - cryptoCache[KeyOf(c)].timestamp >= 60000

(* C3: the symbol is validated before any I/O: a request (candles, ticker, *)
(* market listing, market price) is in flight only for a symbol matching   *)
(* ^[A-Z0-9]+$ of length at most 10.                                       *)
C3_ValidatedBeforeIO ==
  \A c \in Calls :
    (MarketInFlight(c) \/ SentimentInFlight(c)) => ValidSymbol(symbol[c])

(* C4 as claimed: the sentiment fetch is started with the market-data      *)
(* fetch, without waiting for it: while market data is being fetched the   *)
(* sentiment call has been issued.                                         *)
C4_Concurrent ==
  \A c \in Calls : MarketInFlight(c) => spc[c] # "none"

(* C4 as amended: the sentiment fetch is issued only after the market-data *)
(* fetch has returned a snapshot; the two are never in flight together.    *)
C4_Sequential ==
  \A c \in Calls :
    /\ ~(MarketInFlight(c) /\ SentimentInFlight(c))
    /\ spc[c] # "none" => (IsSnapshot(cryptoData[c]) /\ ~MarketInFlight(c))

(* The sentiment listing is in flight, after the snapshot was returned.    *)
C4_Witness ==
  \E c \in Calls : spc[c] = "markets" /\ IsSnapshot(cryptoData[c])

(* C5: getSentimentData always returns a result to the command; when the   *)
(* listing request fails or yields no market the result is score 50,       *)
(* confidence 0, trend NEUTRAL, and the command goes on with step 4; no    *)
(* error reply is ever caused by the sentiment stage.                      *)
C5_SentimentNeverFails ==
  /\ [](\A c \in Calls :
          /\ spc[c] = "returned" => IsSentiment(sentimentData[c])
          /\ reply[c].kind = "error" =>
               reply[c].cause \in {FetchThrown.message, "client is not defined"})
  /\ [][\A c \in Calls :
          (spc[c] = "markets" /\ spc'[c] = "returned") =>
            /\ sentimentData'[c].score = 50
            /\ sentimentData'[c].confidence = 0
            /\ sentimentData'[c].trend = "NEUTRAL"
            /\ pc'[c] = "step4"]_vars

(* A command whose sentiment stage obtained no market completed its run:   *)
(* the neutral result was used and the reply is not a sentiment error.     *)
C5_Witness ==
  \E c \in Calls :
    /\ pc[c] = "done"
    /\ spc[c] = "returned"
    /\ marketList[c] = << >>
    /\ sentimentData[c] = NoMarketsResult
    /\ reply[c].kind = "error"

(* C6: whatever the ticker request answers, fetchCryptoData returns and    *)
(* caches a snapshot with every requested timeframe populated; its four    *)
(* ticker fields are all null (the ticker request failed) or all numbers.  *)
C6_TickerSoftFail ==
  [][\A c \in Calls :
       (pc[c] = "ticker" /\ pc'[c] # "ticker") =>
         /\ pc'[c] = "fetched"
         /\ IsSnapshot(cryptoData'[c])
         /\ SeriesComplete(cryptoData'[c], timeframe[c])
         /\ KeyOf(c) \in DOMAIN cryptoCache'
         /\ cryptoCache'[KeyOf(c)].data = cryptoData'[c]
         /\ LET d == cryptoData'[c]
                fields == {d.currentPrice, d.priceChange24h,
                           d.priceChangePercent24h, d.volume24h} IN
              fields = {None} \/ None \notin fields]_vars

(* A call returned a snapshot with null ticker fields, and it is cached.   *)
C6_Witness ==
  \E c \in Calls :
    /\ pc[c] = "fetched"
    /\ IsSnapshot(cryptoData[c])
    /\ cryptoData[c].currentPrice = None
    /\ cryptoData[c].volume24h = None
    /\ SeriesComplete(cryptoData[c], timeframe[c])
    /\ KeyOf(c) \in DOMAIN cryptoCache
    /\ cryptoCache[KeyOf(c)].data = cryptoData[c]

(* C7 as claimed: a failing ticker fetch is fatal like a failing candle    *)
(* fetch: no call ever gets a snapshot made after a failed ticker fetch.   *)
C7_AnyFailureFatal ==
  \A c \in Calls :
    IsSnapshot(cryptoData[c]) => cryptoData[c].currentPrice # None

(* C7 as amended: a failing candle fetch is fatal: fetchCryptoData throws, *)
(* the command ends with the error reply naming its symbol (or, if that    *)
(* edit fails, with the reply it had), and steps 2 to 8 run only on a      *)
(* snapshot; the ticker request always yields a snapshot.                  *)
C7_CandleFailureFatal ==
  /\ [](\A c \in Calls :
          /\ pc[c] \in {"step3", "sentiment", "step4"} => IsSnapshot(cryptoData[c])
          /\ reply[c].kind = "error" => reply[c].symbol = symbol[c])
  /\ [][\A c \in Calls :
          /\ (pc[c] = "klines" /\ pc'[c] = "fetched") => cryptoData'[c] = FetchThrown
          /\ (pc[c] = "ticker" /\ pc'[c] = "fetched") => IsSnapshot(cryptoData'[c])
          /\ (pc[c] = "fetched" /\ cryptoData[c] = FetchThrown /\ pc'[c] # "fetched") =>
               /\ pc'[c] = "done"
               /\ spc'[c] = "none"
               /\ reply'[c] \in {reply[c], ErrorReply(symbol[c], FetchThrown.message)}]_vars

(* A command ended with the fetch error reply naming its symbol.           *)
C7_Witness ==
  \E c \in Calls :
    /\ pc[c] = "done"
    /\ cryptoData[c] = FetchThrown
    /\ reply[c] = ErrorReply(symbol[c], FetchThrown.message)

(* C8: when the market data (candles and ticker) and the sentiment         *)
(* (listing with matching markets, every price) were fetched successfully, *)
(* the final reply is not an error message.                                *)
C8_SuccessGivesEmbed ==
  \A c \in Calls :
    ( /\ pc[c] = "done"
      /\ IsSnapshot(cryptoData[c])
      /\ cryptoData[c].currentPrice # None
      /\ spc[c] = "returned"
      /\ marketList[c] # << >>
      /\ \A i \in DOMAIN priceReq[c] : ~priceReq[c][i].failed )
    => reply[c].kind # "error"

(* C9: concurrent calls for one key each issue their own candle requests,  *)
(* and every call that completes its fetch overwrites the entry of its key *)
(* with its own snapshot, whatever entry is there: the last write wins.    *)
C9_LastWriteWins ==
  /\ [](\A c1, c2 \in Calls :
          (c1 # c2 /\ KeyOf(c1) = KeyOf(c2) /\ pc[c1] = "klines" /\ pc[c2] = "klines") =>
            \A t \in Range(FetchList(timeframe[c1])) :
              kline[c1][t] # NotRequested /\ kline[c2][t] # NotRequested)
  /\ [][\A c \in Calls :
          (pc[c] = "ticker" /\ pc'[c] = "fetched") =>
            /\ KeyOf(c) \in DOMAIN cryptoCache'
            /\ cryptoCache'[KeyOf(c)] = [data |-> cryptoData'[c], timestamp |-> now]]_vars

(* One call has written the entry of the key less than 60 s ago while      *)
(* another call for the same key, which missed the cache before that       *)
(* write, has fetched its own candles and is about to overwrite it.        *)
C9_Witness ==
  \E c1, c2 \in Calls :
    /\ c1 # c2
    /\ KeyOf(c1) = KeyOf(c2)
    /\ pc[c1] = "ticker"
    /\ pc[c2] = "fetched"
    /\ IsSnapshot(cryptoData[c2])
    /\ KeyOf(c2) \in DOMAIN cryptoCache
    /\ cryptoCache[KeyOf(c2)].data = cryptoData[c2]
    /\ now - cryptoCache[KeyOf(c2)].timestamp < 60000

(* C10: every market that passed the filter has its price request and      *)
(* stays in the batch; a failed price request leaves price, volume and     *)
(* liquidity 0; the result's source count is the number of filtered        *)
(* markets, whichever price requests failed.                               *)
C10_FaultIsolated ==
  \A c \in Calls :
    (spc[c] \in {"prices", "returned"} /\ marketList[c] # << >>) =>
      /\ DOMAIN priceReq[c] = DOMAIN marketList[c]
      /\ \A i \in DOMAIN priceReq[c] :
           (priceReq[c][i] # Pending /\ priceReq[c][i].failed) =>
             priceReq[c][i].priceData = [price |-> 0, volume24h |-> 0, liquidity |-> 0]
      /\ spc[c] = "returned" => sentimentData[c].sources = Len(marketList[c])

(* Two markets passed the filter, the price request of the first failed,   *)
(* that of the second succeeded, and the result counts both.               *)
C10_Witness ==
  \E c \in Calls :
    /\ spc[c] = "returned"
    /\ Len(marketList[c]) = 2
    /\ priceReq[c][1].failed
    /\ ~priceReq[c][2].failed
    /\ sentimentData[c].sources = 2

(* C11: the timeframes mapping calculateTechnicalIndicators returns holds   *)
(* exactly the timeframes of the snapshot whose series has at least 14     *)
(* closes; a shorter series is absent, and the step raises no error: it    *)
(* always returns an analysis.                                             *)
C11_FourteenCloses ==
  /\ [](technicalAnalysis # None =>
          DOMAIN technicalAnalysis.timeframes =
            {t \in DOMAIN snapshot.timeframes :
               Len(snapshot.timeframes[t].candles) >= 14})
  /\ [][apc = "step2" => (apc' = "step5" /\ technicalAnalysis' # None)]_vars

(* The daily series has exactly 14 closes and is in the mapping, the       *)
(* hourly series has 13 and is absent.                                     *)
C11_Witness ==
  /\ technicalAnalysis # None
  /\ DOMAIN snapshot.timeframes = Range(AllTimeframes)
  /\ Len(snapshot.timeframes["1d"].candles) = 14
  /\ Len(snapshot.timeframes["1h"].candles) = 13
  /\ "1d" \in DOMAIN technicalAnalysis.timeframes
  /\ "1h" \notin DOMAIN technicalAnalysis.timeframes

(* C12: for a numeric headline RSI (between 0 and 100) the RSI vote of     *)
(* generateSignals is BULLISH below 30, BEARISH above 70 and NEUTRAL       *)
(* otherwise, 30 and 70 included; a BULLISH or BEARISH vote adds exactly   *)
(* one to the matching tally and nothing to the other.                     *)
C12_RsiVote ==
  (signals # None /\ technicalAnalysis.rsi # None) =>
    LET rsi == technicalAnalysis.rsi.num
        vote == signals.signals.rsi
        without == [technicalAnalysis EXCEPT !.rsi = None]
    IN /\ rsi \in 0..100
       /\ rsi < 30 => vote = "BULLISH"
       /\ rsi > 70 => vote = "BEARISH"
       /\ (rsi >= 30 /\ rsi <= 70) => vote = "NEUTRAL"
       /\ bullishCount(technicalAnalysis) =
            bullishCount(without) + (IF vote = "BULLISH" THEN 1 ELSE 0)
       /\ bearishCount(technicalAnalysis) =
            bearishCount(without) + (IF vote = "BEARISH" THEN 1 ELSE 0)

(* Signals were generated for a headline RSI of exactly 30: NEUTRAL.       *)
C12_Witness ==
  /\ signals # None
  /\ technicalAnalysis.rsi = Num(30)
  /\ signals.signals.rsi = "NEUTRAL"

(* C13: for a headline MACD the MACD vote is BULLISH exactly when the      *)
(* histogram is positive and the MACD line is above the signal line,       *)
(* BEARISH exactly when the histogram is negative, whatever line and       *)
(* signal are, and NEUTRAL otherwise.                                      *)
C13_MacdVote ==
  (signals # None /\ technicalAnalysis.macd # None) =>
    LET macd == technicalAnalysis.macd
        vote == signals.signals.macd
        positive == macd.histogram # None /\ macd.histogram.num > 0
        negative == macd.histogram # None /\ macd.histogram.num < 0
    IN /\ vote = "BULLISH" <=> (positive /\ macd.MACD.num > macd.signal.num)
       /\ vote = "BEARISH" <=> negative
       /\ vote \in {"BULLISH", "BEARISH", "NEUTRAL"}

(* Signals were generated for a positive histogram with the line below the *)
(* signal line: NEUTRAL.                                                   *)
C13_Witness ==
  /\ signals # None
  /\ technicalAnalysis.macd # None
  /\ technicalAnalysis.macd.histogram = Num(1)
  /\ technicalAnalysis.macd.MACD = Num(1)
  /\ technicalAnalysis.macd.signal = Num(2)
  /\ signals.signals.macd = "NEUTRAL"

(* C14: the tallies of the three votes sum to at most 3; overallSignal is  *)
(* BUY when bullish > bearish, SELL when bearish > bullish, else HOLD; the *)
(* confidence is the winning tally / 3 x 100, 0 on a tie, within [0,100];  *)
(* overallTrend is BULLISH with BUY, BEARISH with SELL, NEUTRAL with HOLD. *)
C14_Fusion ==
  signals # None =>
    LET bull == CountVotes(signals.signals, "BULLISH")
        bear == CountVotes(signals.signals, "BEARISH")
        winning == IF bull > bear THEN bull ELSE bear
        c == signals.confidence
    IN /\ bull + bear <= 3
       /\ signals.overallSignal =
            (IF bull > bear THEN "BUY" ELSE IF bear > bull THEN "SELL" ELSE "HOLD")
       /\ IF bull = bear THEN c.num = 0
          ELSE 3 * c.num = winning * 100 * c.den
       /\ c.den > 0 /\ 0 <= c.num /\ c.num <= 100 * c.den
       /\ signals.overallTrend = "BULLISH" <=> signals.overallSignal = "BUY"
       /\ signals.overallTrend = "BEARISH" <=> signals.overallSignal = "SELL"
       /\ signals.overallTrend = "NEUTRAL" <=> signals.overallSignal = "HOLD"

(* One bullish vote against no bearish vote: BUY with a confidence of a    *)
(* third of 100.                                                           *)
C14_Witness ==
  /\ signals # None
  /\ CountVotes(signals.signals, "BULLISH") = 1
  /\ CountVotes(signals.signals, "BEARISH") = 0
  /\ signals.overallSignal = "BUY"
  /\ 3 * signals.confidence.num = 100 * signals.confidence.den

(* The trailing (at most 50) daily candles of the snapshot, and the highs  *)
(* and lows at its swing positions, stated without the loop of the code.   *)
TrailingDays ==
  LET c == snapshot.timeframes["1d"].candles
      n == IF Len(c) <= 50 THEN Len(c) ELSE 50
  IN [i \in 1..n |-> c[Len(c) - n + i]]

SwingPositions(c) == {i \in 1..Len(c) : 3 <= i /\ i <= Len(c) - 2}

SwingHighs(c) ==
  {c[i].high : i \in {j \in SwingPositions(c) :
                        \A k \in {j - 2, j - 1, j + 1, j + 2} : c[j].high > c[k].high}}

SwingLows(c) ==
  {c[i].low : i \in {j \in SwingPositions(c) :
                       \A k \in {j - 2, j - 1, j + 1, j + 2} : c[j].low < c[k].low}}

C16_SortedCapped ==
  keyLevels # None =>
    LET r == keyLevels.resistance
        s == keyLevels.support
    IN /\ Len(r) <= 3 /\ Len(s) <= 3
       /\ \A i \in 1..(Len(r) - 1) : r[i] > r[i + 1]
       /\ \A i \in 1..(Len(s) - 1) : s[i] < s[i + 1]
       /\ "1d" \in DOMAIN snapshot.timeframes =>
            LET H == SwingHighs(TrailingDays)
                L == SwingLows(TrailingDays)
            IN /\ Cardinality(H) > 3 =>
                    Range(r) = {x \in H : Cardinality({y \in H : y > x}) < 3}
               /\ Cardinality(L) > 3 =>
                    Range(s) = {x \in L : Cardinality({y \in L : y < x}) < 3}

(* Four distinct swing highs, found in rising order, of which the three    *)
(* highest are reported, highest first.                                    *)
C16_Witness ==
  /\ keyLevels # None
  /\ "1d" \in DOMAIN snapshot.timeframes
  /\ SwingHighs(TrailingDays) = {2, 3, 4, 5}
  /\ snapshot.timeframes["1d"].candles[3].high = 2
  /\ keyLevels.resistance = <<5, 4, 3>>

(* C17: with headline Bollinger Bands and RSI present, the volatility is   *)
(* HIGH when (upper - lower) / middle x 100 is above 10, MEDIUM when it is *)
(* above 5 and at most 10, LOW when it is at most 5, and riskLevel equals  *)
(* the volatility.                                                         *)
C17_Bandwidth ==
  ( /\ riskMetrics # None
    /\ technicalAnalysis.bollingerBands # None
    /\ technicalAnalysis.rsi # None ) =>
    LET bb == technicalAnalysis.bollingerBands
        spread == (bb.upper.num - bb.lower.num) * 100
        middle == bb.middle.num
    IN /\ spread > 10 * middle => riskMetrics.volatility = "HIGH"
       /\ (spread > 5 * middle /\ spread <= 10 * middle) => riskMetrics.volatility = "MEDIUM"
       /\ spread <= 5 * middle => riskMetrics.volatility = "LOW"
       /\ riskMetrics.riskLevel = riskMetrics.volatility

(* Risk metrics for a band width of exactly 10 percent: MEDIUM.            *)
C17_Witness ==
  /\ riskMetrics # None
  /\ technicalAnalysis.rsi # None
  /\ technicalAnalysis.bollingerBands =
       [upper |-> Num(105), middle |-> Num(100), lower |-> Num(95)]
  /\ riskMetrics.volatility = "MEDIUM"
  /\ riskMetrics.riskLevel = "MEDIUM"

(* C18: calculateRiskMetrics always returns; without headline Bollinger    *)
(* Bands or without headline RSI it returns volatility UNKNOWN, riskLevel  *)
(* MEDIUM and neither stop-loss nor take-profit; stop-loss and take-profit *)
(* are present exactly when the volatility is not UNKNOWN, and then are    *)
(* 3 and 8 for an RSI below 30, 2 and 5 above 70, 2.5 and 6 otherwise.     *)
C18_RiskDefaults ==
  /\ [](riskMetrics # None =>
          LET rsi == technicalAnalysis.rsi
              sl == riskMetrics.suggestedStopLoss
              tp == riskMetrics.suggestedTakeProfit
          IN /\ (technicalAnalysis.bollingerBands = None \/ rsi = None) =>
                  /\ riskMetrics.volatility = "UNKNOWN"
                  /\ riskMetrics.riskLevel = "MEDIUM"
                  /\ sl = None /\ tp = None
             /\ sl # None <=> riskMetrics.volatility # "UNKNOWN"
             /\ tp # None <=> riskMetrics.volatility # "UNKNOWN"
             /\ sl # None =>
                  <<sl.num, tp.num>> =
                    (IF rsi.num < 30 THEN <<30, 80>>
                     ELSE IF rsi.num > 70 THEN <<20, 50>> ELSE <<25, 60>>))
  /\ [][apc = "step7" => (apc' = "step8" /\ riskMetrics' # None)]_vars

(* Risk metrics were computed with Bollinger Bands but without an RSI:     *)
(* the defaults, and no stop-loss or take-profit.                          *)
C18_Witness ==
  /\ riskMetrics # None
  /\ technicalAnalysis.bollingerBands # None
  /\ technicalAnalysis.rsi = None
  /\ riskMetrics.volatility = "UNKNOWN"
  /\ riskMetrics.riskLevel = "MEDIUM"
  /\ riskMetrics.suggestedStopLoss = None
  /\ riskMetrics.suggestedTakeProfit = None

(* A keyword as the word it is in a text (the keyword ' ATH' is the word   *)
(* ATH after a space), and its occurrence in the question or description   *)
(* of a market as they are written.                                        *)
KeywordWord(kw) == IF kw = " ATH" THEN "ATH" ELSE kw

OccursIn(kws, m) ==
  \E i \in DOMAIN kws : KeywordWord(kws[i]) \in m.question \cup m.description

(* C19: analyzeMarketSentiment classifies a market as BEARISH whenever a   *)
(* bearish keyword occurs in its question or description, bullish keywords *)
(* or not; as BULLISH when a bullish and no bearish keyword occurs; as     *)
(* NEUTRAL when no keyword occurs.                                         *)
C19_BearishOverrides ==
  marketSentiment # None =>
    /\ OccursIn(bearishKeywords, market) => marketSentiment.direction = "BEARISH"
    /\ (OccursIn(bullishKeywords, market) /\ ~OccursIn(bearishKeywords, market))
         => marketSentiment.direction = "BULLISH"
    /\ (~OccursIn(bullishKeywords, market) /\ ~OccursIn(bearishKeywords, market))
         => marketSentiment.direction = "NEUTRAL"

(* C20: the score of a market is at least 50 and at most 80 for a BULLISH  *)
(* market, at least 20 and at most 50 for a BEARISH market, exactly 50 for *)
(* a NEUTRAL market; every score lies in [20, 80].                         *)
C20_ScoreRange ==
  marketSentiment # None =>
    /\ marketSentiment.direction = "BULLISH" =>
         (50 <= marketSentiment.score /\ marketSentiment.score <= 80)
    /\ marketSentiment.direction = "BEARISH" =>
         (20 <= marketSentiment.score /\ marketSentiment.score <= 50)
    /\ marketSentiment.direction = "NEUTRAL" => marketSentiment.score = 50
    /\ 20 <= marketSentiment.score /\ marketSentiment.score <= 80

(* The weighted score of a non-empty list of markets as the fraction       *)
(* totalScore / totalVolume.                                               *)
TotalScore(ms) ==
  SumSeq([i \in DOMAIN ms |-> analyzeMarketSentiment(ms[i]).score * Weight(ms[i])])

TotalVolume(ms) == SumSeq([i \in DOMAIN ms |-> Weight(ms[i])])

(* C21 as claimed: for a non-empty market set the trend agrees with the    *)
(* reported score: BULLISH exactly when the reported score is above 60,    *)
(* BEARISH exactly when it is below 40, NEUTRAL otherwise.                 *)
C21_TrendOfReportedScore ==
  (sentimentResult # None /\ Len(marketsWithPrices) > 0) =>
    sentimentResult.trend =
      (IF sentimentResult.score > 60 THEN "BULLISH"
       ELSE IF sentimentResult.score < 40 THEN "BEARISH" ELSE "NEUTRAL")

(* C21 as amended: for a non-empty market set the trend follows the        *)
(* weighted score before rounding: BULLISH exactly when it is above 60,    *)
(* BEARISH exactly when it is below 40, NEUTRAL otherwise.  The reported   *)
(* score is that score rounded to the nearest integer, so a reported score *)
(* above 60 is BULLISH and one below 40 is BEARISH, while a reported 60    *)
(* may be BULLISH or NEUTRAL and a reported 40 BEARISH or NEUTRAL.         *)
C21_TrendOfWeightedScore ==
  (sentimentResult # None /\ Len(marketsWithPrices) > 0) =>
    LET num == TotalScore(marketsWithPrices)
        den == TotalVolume(marketsWithPrices)
        score == sentimentResult.score
        trend == sentimentResult.trend
    IN /\ trend = "BULLISH" <=> num > 60 * den
       /\ trend = "BEARISH" <=> num < 40 * den
       /\ trend \in {"BULLISH", "BEARISH", "NEUTRAL"}
       /\ 2 * score * den - den <= 2 * num
       /\ 2 * num < 2 * score * den + den
       /\ score > 60 => trend = "BULLISH"
       /\ score < 40 => trend = "BEARISH"
       /\ trend = "BULLISH" => score >= 60
       /\ trend = "BEARISH" => score <= 40

(* A weighted score between 60 and 60.5: the trend is BULLISH and the      *)
(* reported score is 60.                                                   *)
C21_Witness ==
  /\ sentimentResult # None
  /\ Len(marketsWithPrices) = 2
  /\ sentimentResult.trend = "BULLISH"
  /\ sentimentResult.score = 60

(* C22: when the listing leaves no market that matches the symbol (only    *)
(* matching markets survive the filter), getSentimentData returns at once, *)
(* without a price request and without dividing by the zero total weight,  *)
(* the result score 50, confidence 0, trend NEUTRAL, sources 0 and no top  *)
(* markets; every result with no source is this same record, in the hands  *)
(* of a call and in the cache.                                             *)
C22_NoMarketsNeutral ==
  /\ [](\A c \in Calls :
          /\ (IsSentiment(sentimentData[c]) /\ sentimentData[c].sources = 0)
               => sentimentData[c] = NoMarketsResult
          /\ \A key \in DOMAIN sentimentCache :
               sentimentCache[key].data.sources = 0
                 => sentimentCache[key].data = NoMarketsResult)
  /\ [][\A c \in Calls :
          (spc[c] = "markets" /\ spc'[c] # "markets") =>
            /\ \A i \in DOMAIN marketList'[c] :
                 MatchesTerm(marketList'[c][i], mapSymbolToSearchTerm(symbol[c]))
            /\ IF marketList'[c] = << >>
               THEN /\ spc'[c] = "returned"
                    /\ sentimentData'[c].score = 50
                    /\ sentimentData'[c].confidence = 0
                    /\ sentimentData'[c].trend = "NEUTRAL"
                    /\ sentimentData'[c].sources = 0
                    /\ sentimentData'[c].markets = << >>
               ELSE spc'[c] = "prices"]_vars

(* A call for a symbol no market mentions got the empty result, and it is  *)
(* the cached one.                                                         *)
C22_Witness ==
  \E c \in Calls :
    /\ spc[c] = "returned"
    /\ symbol[c] = <<"B", "T", "-">>
    /\ marketList[c] = << >>
    /\ sentimentData[c].sources = 0
    /\ sentimentData[c].markets = << >>
    /\ symbol[c] \in DOMAIN sentimentCache
    /\ sentimentCache[symbol[c]].data = sentimentData[c]

(* The timeframe argument a cache key stands for.                          *)
TimeframeOfKey(key) == IF key[2] = "all" THEN NULL ELSE key[2]

(* C23: a failing fetchCryptoData leaves the cache as it is.  Every cache  *)
(* entry holds the snapshot of its key with every timeframe of the key     *)
(* fetched successfully (candles present); an entry is written only by a   *)
(* call all of whose candle fetches succeeded, as that call's snapshot     *)
(* stamped with the current time; no entry is ever removed; and the step   *)
(* in which a call fails changes no entry and no timestamp.                *)
C23_FailureLeavesCache ==
  /\ [](\A key \in DOMAIN cryptoCache :
          LET d == cryptoCache[key].data IN
            /\ IsSnapshot(d)
            /\ d.symbol = key[1]
            /\ SeriesComplete(d, TimeframeOfKey(key))
            /\ \A t \in DOMAIN d.timeframes : Len(d.timeframes[t].candles) > 0)
  /\ [][/\ DOMAIN cryptoCache \subseteq DOMAIN cryptoCache'
        /\ \A c \in Calls :
             (cryptoData[c] # FetchThrown /\ cryptoData'[c] = FetchThrown)
               => cryptoCache' = cryptoCache
        /\ \A key \in DOMAIN cryptoCache' :
             (key \notin DOMAIN cryptoCache \/ cryptoCache'[key] # cryptoCache[key]) =>
               \E c \in Calls :
                 /\ pc[c] = "ticker" /\ pc'[c] = "fetched"
                 /\ KeyOf(c) = key
                 /\ \A t \in Range(FetchList(timeframe[c])) : kline[c][t].state = "ok"
                 /\ cryptoCache'[key] = [data |-> cryptoData'[c], timestamp |-> now]]_vars

(* A call has failed while its key has an expired entry: the entry is      *)
(* still there with its old timestamp.                                     *)
C23_Witness ==
  \E c \in Calls :
    /\ pc[c] = "fetched"
    /\ cryptoData[c] = FetchThrown
    /\ KeyOf(c) \in DOMAIN cryptoCache
    /\ now - cryptoCache[KeyOf(c)].timestamp >= cacheTimeout
    /\ SeriesComplete(cryptoCache[KeyOf(c)].data, timeframe[c])

(* C24: a snapshot fetched for one timeframe other than 1d has no daily    *)
(* series, so whatever its candles and indicator readings are, the         *)
(* headline fields are all null, every vote is NEUTRAL with overallSignal  *)
(* HOLD and confidence 0, support and resistance are empty, and the risk   *)
(* metrics are volatility UNKNOWN, riskLevel MEDIUM, no stop-loss and no   *)
(* take-profit.                                                            *)
C24_NoDailyDefaults ==
  (snapshot # None /\ "1d" \notin DOMAIN snapshot.timeframes) =>
    /\ technicalAnalysis # None =>
         /\ technicalAnalysis.rsi = None
         /\ technicalAnalysis.macd = None
         /\ technicalAnalysis.sma20 = None
         /\ technicalAnalysis.ema20 = None
         /\ technicalAnalysis.bollingerBands = None
    /\ signals # None =>
         /\ signals.overallSignal = "HOLD"
         /\ signals.overallTrend = "NEUTRAL"
         /\ signals.confidence.num = 0
         /\ \A k \in DOMAIN signals.signals : signals.signals[k] = "NEUTRAL"
    /\ keyLevels # None =>
         /\ keyLevels.support = << >>
         /\ keyLevels.resistance = << >>
    /\ riskMetrics # None =>
         /\ riskMetrics.volatility = "UNKNOWN"
         /\ riskMetrics.riskLevel = "MEDIUM"
         /\ riskMetrics.suggestedStopLoss = None
         /\ riskMetrics.suggestedTakeProfit = None

(* The analysis ran to its end on an hourly-only snapshot whose series has *)
(* a swing high and whose hourly reading has an oversold RSI, a bullish    *)
(* MACD and wide bands.                                                    *)
C24_Witness ==
  /\ apc = "step8"
  /\ DOMAIN snapshot.timeframes = {"1h"}
  /\ snapshot.timeframes["1h"].candles = SpikeSeries
  /\ "1h" \in DOMAIN technicalAnalysis.timeframes
  /\ technicalAnalysis.timeframes["1h"].rsi = Num(25)
  /\ technicalAnalysis.timeframes["1h"].bollingerBands # None
  /\ signals.overallSignal = "HOLD"
  /\ keyLevels = NoLevels
  /\ riskMetrics.volatility = "UNKNOWN"

(* C25: getSentimentData writes a cache entry only for a result computed   *)
(* from a successful market listing request: the step in which a call      *)
(* whose listing request failed returns leaves the sentiment cache as it   *)
(* was, so that the next call for the symbol requests the listing again.   *)
C25_FailedListingNotCached ==
  [][\A c \in Calls :
       (spc[c] \in {"markets", "prices"} /\ spc'[c] = "returned"
          /\ listing'[c] = "failed")
         => sentimentCache' = sentimentCache]_vars

====
